---- MODULE Spec2Model ----
(***************************************************************************)
(* Model of igl::copyleft::boolean::mesh_boolean                           *)
(* (include/igl/copyleft/boolean/mesh_boolean.cpp).                        *)
(*                                                                         *)
(* A call runs per_face_winding_number_binary_operation once: merge the    *)
(* two meshes, hand them to the injected resolver, propagate winding       *)
(* numbers, reduce them with the operation, extract the boundary, resolve  *)
(* duplicated faces, convert the exact coordinates and drop unreferenced   *)
(* vertices.  The resolver, the winding-number propagation,                *)
(* unique_simplices, assign_scalar and remove_unreferenced are             *)
(* collaborators whose code is outside mesh_boolean.cpp: their results are *)
(* nondeterministic within what their contracts allow.                     *)
(*                                                                         *)
(* Rows of matrices are 1-based sequences; vertex ids and provenance       *)
(* values are 0-based, as in the code.  A signed index is (row)*(+1|-1),   *)
(* where row = i+1 for the code's 0-based face index i.                    *)
(***************************************************************************)
EXTENDS Integers, Sequences, FiniteSets

VARIABLES
  build,              \* "debug": assert() is compiled in; "release": NDEBUG
  scenario,           \* geometric relation of the inputs (decides what the collaborators return)
  type,               \* the MeshBooleanType argument
  FA, FB,             \* input facet lists (VA, VB are 0..NumVerts-1)
  pc,                 \* position of the call
  F, CJ,              \* resolved mesh: facets and their birth facets   (line 208-210)
  W,                  \* winding numbers, 4 columns after padding        (line 214-227)
  Wr,                 \* per facet <<w_out_result, w_in_result>>         (line 230-237)
  selected,           \* signed indices of the facets on the boundary    (line 246-254)
  kept_faces,         \* F1 of resolve_duplicated_faces                  (line 257)
  kept_face_indices,  \* J1 of resolve_duplicated_faces                  (line 258)
  uF,                 \* representatives returned by unique_simplices    (line 98-99)
  rdf_kept,           \* kept_faces of resolve_duplicated_faces, rows of F1 (line 127)
  G, JJ,              \* F2, J2: the block-local G and J                 (line 273-275)
  Vs,                 \* converted coordinates                           (line 277-282)
  VC, FC, J,          \* the caller's output arguments
  calls               \* collaborators invoked so far, in order

vars == <<build, scenario, type, FA, FB, pc, F, CJ, W, Wr, selected,
          kept_faces, kept_face_indices, uF, rdf_kept, G, JJ, Vs, VC, FC, J, calls>>

(***************************************************************************)
(* Bounds                                                                  *)
(***************************************************************************)
\* longest facet list handed directly to resolve_duplicated_faces
MaxFaces == 3
\* most facets the resolver returns for arbitrary (non-solid) input
MaxResolved == 3
\* most facets of one input solid
MaxIn == 2

(***************************************************************************)
(* Small helpers                                                           *)
(***************************************************************************)
Abs(x) == IF x < 0 THEN -x ELSE x

RECURSIVE Concat(_)
\* concatenation of a sequence of sequences
Concat(ss) == IF ss = <<>> THEN <<>> ELSE Head(ss) \o Concat(Tail(ss))

\* all sequences over S of length 0..n
SeqsUpTo(S, n) == UNION {[1..k -> S] : k \in 0..n}

\* Eigen's row.reverse()
Reverse(f) == <<f[3], f[2], f[1]>>

Min2(a, b) == IF a <= b THEN a ELSE b
Max2(a, b) == IF a >= b THEN a ELSE b
Min3(f) == Min2(f[1], Min2(f[2], f[3]))
Max3(f) == Max2(f[1], Max2(f[2], f[3]))
Mid3(f) == f[1] + f[2] + f[3] - Min3(f) - Max3(f)

\* row of igl::sort(F,2,true,sortF): the vertex ids in ascending order
SortedTriple(f) == <<Min3(f), Mid3(f), Max3(f)>>

\* lexicographic row order of igl::sortrows
LexLess(a, b) ==
  \/ a[1] < b[1]
  \/ a[1] = b[1] /\ a[2] < b[2]
  \/ a[1] = b[1] /\ a[2] = b[2] /\ a[3] < b[3]

(***************************************************************************)
(* igl::unique_simplices(F1,uF,IA,IC): the rows of F1 grouped by their     *)
(* unordered vertex triple.  Groups are numbered in ascending order of the *)
(* sorted triple; IC maps a row to its group; IA names one member of each  *)
(* group (which one is not fixed: the sort is not stable), and uF is that  *)
(* member's row of F1, in its own vertex order.                            *)
(***************************************************************************)
Keys(F1) == {SortedTriple(F1[i]) : i \in DOMAIN F1}

Rank(F1, k) == Cardinality({k2 \in Keys(F1) : LexLess(k2, k)}) + 1

RECURSIVE RepChoices(_, _)
\* the possible IA(1..nu): one member row for each of the first nu groups
RepChoices(ic, nu) ==
  IF nu = 0 THEN {<<>>}
  ELSE {Append(ia, i) : ia \in RepChoices(ic, nu - 1),
                        i \in {r \in DOMAIN ic : ic[r] = nu}}

UniqueSimplices(F1) ==
  LET ic == [i \in DOMAIN F1 |-> Rank(F1, SortedTriple(F1[i]))]
  IN  { [uF |-> [u \in DOMAIN ia |-> F1[ia[u]]], IA |-> ia, IC |-> ic] :
          ia \in RepChoices(ic, Cardinality(Keys(F1))) }

(***************************************************************************)
(* resolve_duplicated_faces                                                *)
(***************************************************************************)
\* line 112-121: f has the cyclic orientation of the representative u
consistent(f, u) ==
  \/ (f[1] = u[1] /\ f[2] = u[2] /\ f[3] = u[3])
  \/ (f[1] = u[2] /\ f[2] = u[3] /\ f[3] = u[1])
  \/ (f[1] = u[3] /\ f[2] = u[1] /\ f[3] = u[2])

\* line 122: the signed index pushed on uF2F[ui] for row i
SignedRow(F1, us, i) ==
  IF consistent(F1[i], us.uF[us.IC[i]]) THEN i ELSE -i

RECURSIVE uF2FUpTo(_, _, _, _)
\* line 110-125: uF2F[ui] after the loop has visited rows 1..n
uF2FUpTo(F1, us, ui, n) ==
  IF n = 0 THEN <<>>
  ELSE IF us.IC[n] = ui
       THEN Append(uF2FUpTo(F1, us, ui, n - 1), SignedRow(F1, us, n))
       ELSE uF2FUpTo(F1, us, ui, n - 1)

uF2F(F1, us, ui) == uF2FUpTo(F1, us, ui, Len(F1))

RECURSIVE SumSigns(_)
SumSigns(s) == IF s = <<>> THEN 0
               ELSE (IF Head(s) > 0 THEN 1 ELSE -1) + SumSigns(Tail(s))

\* line 123: counts(ui), consistent occurrences minus reversed ones
counts(F1, us, ui) == SumSigns(uF2F(F1, us, ui))

\* line 124: ucounts(ui), all occurrences
ucounts(F1, us, ui) == Len(uF2F(F1, us, ui))

RECURSIVE FirstWith(_, _)
\* line 135-141, 145-151: the first fid of the list with the wanted sign, or <<>>
FirstWith(fids, positive) ==
  IF fids = <<>> THEN <<>>
  ELSE IF (positive /\ Head(fids) > 0) \/ (~positive /\ Head(fids) < 0)
       THEN <<Abs(Head(fids))>>
       ELSE FirstWith(Tail(fids), positive)

\* a mutation: every occurrence of a duplicated group is kept
KeptOfGroup_keep_all(F1, us, ui) ==
  [k \in 1..Len(uF2F(F1, us, ui)) |-> Abs(uF2F(F1, us, ui)[k])]

\* a mutation: the first occurrence is kept whatever its sign
KeptOfGroup_first_any(F1, us, ui) ==
  IF ucounts(F1, us, ui) = 1 \/ counts(F1, us, ui) \in {1, -1}
  THEN <<Abs(uF2F(F1, us, ui)[1])>>
  ELSE <<>>

\* line 128-156: the rows of F1 that group ui contributes to kept_faces
KeptOfGroup(F1, us, ui) ==
  IF ucounts(F1, us, ui) = 1 THEN <<Abs(uF2F(F1, us, ui)[1])>>
  ELSE IF counts(F1, us, ui) = 1 THEN FirstWith(uF2F(F1, us, ui), TRUE)
  ELSE IF counts(F1, us, ui) = -1 THEN FirstWith(uF2F(F1, us, ui), FALSE)
  ELSE <<>>

\* line 142, 152, 154: some assert of the second loop does not hold
GroupAssertFails(F1, us, ui) ==
  /\ ucounts(F1, us, ui) # 1
  /\ \/ counts(F1, us, ui) \in {1, -1} /\ KeptOfGroup(F1, us, ui) = <<>>
     \/ counts(F1, us, ui) \notin {1, -1, 0}

\* a mutation: a group with a signed count beyond +-1 is never reported
RdfAssertFails_never(F1, us) == FALSE

RdfAssertFails(F1, us) ==
  \E ui \in 1..Len(us.uF) : GroupAssertFails(F1, us, ui)

RECURSIVE Ascending(_)
\* the members of a set of row numbers, smallest first
Ascending(S) ==
  IF S = {} THEN <<>>
  ELSE LET m == CHOOSE x \in S : \A y \in S : x <= y
       IN  <<m>> \o Ascending(S \ {m})

\* a mutation: the kept rows are listed in the order they have in F1
RdfKept_input_order(F1, us) ==
  Ascending({KeptOfGroup(F1, us, ui)[1] :
               ui \in {u \in 1..Len(us.uF) : KeptOfGroup(F1, us, u) # <<>>}})

\* line 127-156: kept_faces, group after group
RdfKept(F1, us) ==
  Concat([ui \in 1..Len(us.uF) |-> KeptOfGroup(F1, us, ui)])

\* line 158-164
RdfF2(F1, kept) == [k \in 1..Len(kept) |-> F1[kept[k]]]
RdfJ2(J1, kept) == [k \in 1..Len(kept) |-> J1[kept[k]]]

(***************************************************************************)
(* Inputs.  An input solid with n facets is the strip <<i-1,i,i+1>>,       *)
(* i = 1..n, over n+2 vertices: n facets with pairwise distinct triples.   *)
(***************************************************************************)
Strip(n) == [i \in 1..n |-> <<i - 1, i, i + 1>>]

\* VA.rows(), VB.rows(): the vertices a facet list refers to
NumVerts(Fx) == IF Fx = <<>> THEN 0 ELSE Len(Fx) + 2

\* exact coordinate of merged vertex v (one abstract coordinate per vertex)
ExactCoord(v) == v

Types == {"UNION", "INTERSECT", "MINUS", "XOR", "RESOLVE"}

\* a MeshBooleanType value outside the five the switch names
InvalidType == "NUM_MESH_BOOLEAN_TYPES"

(***************************************************************************)
(* resolve_intersections, line 79-82: V << VA, VB; F << FA, FB + VA.rows() *)
(***************************************************************************)
MergedF(Fa, Fb) ==
  Fa \o [i \in 1..Len(Fb) |->
           <<Fb[i][1] + NumVerts(Fa), Fb[i][2] + NumVerts(Fa), Fb[i][3] + NumVerts(Fa)>>]

MergedV(Fa, Fb) == [v \in 1..(NumVerts(Fa) + NumVerts(Fb)) |-> ExactCoord(v - 1)]

IdentityJ(n) == [i \in 1..n |-> i - 1]

(***************************************************************************)
(* resolve_func(V, F, VC, FC, J): what the injected resolver may return.   *)
(*  "solids"     two solids whose facets are pairwise distinct: the merged *)
(*               facets, each born of itself                               *)
(*  "coincident" B is A again: coinciding vertices are merged (igl_resolve,*)
(*               line 51-53), so every facet is there twice                *)
(*  "general"    any facets over the merged vertices, any birth facets     *)
(***************************************************************************)
\* "general": a facet born of A's facet 0, and facets born of B's facet 0 that
\* coincide with it (rotated, or with the opposite orientation) or lie elsewhere
ResolvedPool ==
  {[tri |-> <<0, 1, 2>>, cj |-> 0], [tri |-> <<1, 2, 0>>, cj |-> 1],
   [tri |-> <<2, 1, 0>>, cj |-> 1], [tri |-> <<3, 4, 5>>, cj |-> 1]}

ResolverResults(sc, Fa, Fb) ==
  CASE sc = "solids" ->
         {[F |-> MergedF(Fa, Fb), CJ |-> IdentityJ(Len(Fa) + Len(Fb))]}
    [] sc = "coincident" ->
         {[F |-> Fa \o Fa, CJ |-> IdentityJ(2 * Len(Fa))]}
    [] OTHER ->
         LET pool == {r \in ResolvedPool : r.cj < Len(Fa) + Len(Fb)}
         IN  {[F |-> [i \in 1..Len(rs) |-> rs[i].tri],
               CJ |-> [i \in 1..Len(rs) |-> rs[i].cj]] :
                rs \in SeqsUpTo(pool, MaxResolved)}

(***************************************************************************)
(* Winding numbers.  labels: line 215-217.  propagate_winding_numbers      *)
(* returns two columns (out, in) per label present in the mesh: across an  *)
(* outward oriented facet of a solid that solid's winding number goes from *)
(* 0 (outside) to 1 (inside), and the other solid's is the same on both    *)
(* sides, 0 or 1.  Of two coincident facets one lies outside the other.    *)
(***************************************************************************)
Labels(cj, Fa) == [i \in 1..Len(cj) |-> IF cj[i] < Len(Fa) THEN 0 ELSE 1]

WindingRow(label, other) ==
  IF label = 0 THEN <<0, 1, other, other>> ELSE <<other, other, 0, 1>>

WindingTables(sc, labels) ==
  LET n == Len(labels)
      all == {[i \in 1..n |-> WindingRow(labels[i], o[i])] : o \in [1..n -> {0, 1}]}
  IN  IF sc = "coincident"
      THEN {w \in all : \A i \in 1..(n \div 2) :
                          {w[i], w[i + (n \div 2)]} = {<<0, 1, 0, 0>>, <<1, 1, 0, 1>>}}
      ELSE all

\* W.cols(): 2 when no facet carries label 1
WCols(labels) == IF \E i \in 1..Len(labels) : labels[i] = 1 THEN 4 ELSE 2

\* what propagate_winding_numbers(V, F, labels, W) may return
PropagateResults(sc, labels) ==
  IF WCols(labels) = 2 THEN {[i \in 1..Len(labels) |-> <<0, 1>>]}
  ELSE WindingTables(sc, labels)

\* line 220-227: two zero columns are appended to a two-column table
PadW(w) == [i \in 1..Len(w) |-> IF Len(w[i]) = 2 THEN w[i] \o <<0, 0>> ELSE w[i]]

\* line 221: assert(FB.rows() == 0) does not hold
PadAssertFails(labels, Fb) == WCols(labels) = 2 /\ Len(Fb) # 0

(***************************************************************************)
(* BinaryWindingNumberOperations.h: the reductions and the keep policies   *)
(***************************************************************************)
Pos(w) == w > 0

BinaryUnion(w) == IF Pos(w[1]) \/ Pos(w[2]) THEN 1 ELSE 0
BinaryIntersect(w) == IF Pos(w[1]) /\ Pos(w[2]) THEN 1 ELSE 0
BinaryMinus(w) == IF Pos(w[1]) /\ ~Pos(w[2]) THEN 1 ELSE 0
BinaryXor(w) == IF Pos(w[1]) # Pos(w[2]) THEN 1 ELSE 0
BinaryResolve(w) == 1

KeepInside(out_w, in_w) ==
  IF in_w = 1 /\ out_w = 0 THEN 1
  ELSE IF out_w = 1 /\ in_w = 0 THEN -1
  ELSE 0

KeepAll(out_w, in_w) == 1

\* a mutation: an unknown type falls through to the RESOLVE case
IsSupported_fallthrough(t) == TRUE

\* line 310-339: the switch has a case for t
IsSupported(t) == t \in {"UNION", "INTERSECT", "MINUS", "XOR", "RESOLVE"}

\* line 312-335: the reduction each case passes
wind_num_op(t, w) ==
  CASE t = "UNION" -> BinaryUnion(w)
    [] t = "INTERSECT" -> BinaryIntersect(w)
    [] t = "MINUS" -> BinaryMinus(w)
    [] t = "XOR" -> BinaryXor(w)
    [] OTHER -> BinaryResolve(w)

\* a mutation: the RESOLVE case passes KeepInside like the other cases
keep_inside_always(t, out_w, in_w) == KeepInside(out_w, in_w)

\* line 312-335: the keep policy each case passes
keep(t, out_w, in_w) ==
  IF t \in {"UNION", "INTERSECT", "MINUS", "XOR"}
  THEN KeepInside(out_w, in_w) ELSE KeepAll(out_w, in_w)

(***************************************************************************)
(* per_face_winding_number_binary_operation, line 229-268                  *)
(***************************************************************************)
\* a mutation: the pairs are taken from adjacent columns, (0,1) and (2,3)
ResultWinding_adjacent_columns(t, w) ==
  [i \in 1..Len(w) |-> <<wind_num_op(t, <<w[i][1], w[i][2]>>),
                         wind_num_op(t, <<w[i][3], w[i][4]>>)>>]

\* line 230-237
ResultWinding(t, w) ==
  [i \in 1..Len(w) |-> <<wind_num_op(t, <<w[i][1], w[i][3]>>),
                         wind_num_op(t, <<w[i][2], w[i][4]>>)>>]

\* line 240-242
index_to_signed_index(i, ori) == i * (IF ori THEN 1 ELSE -1)

RECURSIVE SelectedUpTo(_, _, _)
\* line 246-254 after the loop has visited facets 1..n
SelectedUpTo(t, wr, n) ==
  IF n = 0 THEN <<>>
  ELSE LET should_keep == keep(t, wr[n][1], wr[n][2])
           before == SelectedUpTo(t, wr, n - 1)
       IN  IF should_keep > 0 THEN Append(before, index_to_signed_index(n, TRUE))
           ELSE IF should_keep < 0 THEN Append(before, index_to_signed_index(n, FALSE))
           ELSE before

Selected(t, wr) == SelectedUpTo(t, wr, Len(wr))

\* a mutation: a facet selected with a negative sign is not reversed
KeptFaces_no_reverse(f, sel) == [k \in 1..Len(sel) |-> f[Abs(sel[k])]]

\* line 257-266
KeptFaces(f, sel) ==
  [k \in 1..Len(sel) |-> IF sel[k] > 0 THEN f[Abs(sel[k])] ELSE Reverse(f[Abs(sel[k])])]

\* line 267
KeptFaceIndices(cj, sel) == [k \in 1..Len(sel) |-> cj[Abs(sel[k])]]

(***************************************************************************)
(* line 277-284: conversion and compaction                                 *)
(***************************************************************************)
\* assign_scalar: the exact value rounded to the output scalar's grid
assign_scalar(x) == 2 * (x \div 2)

ConvertedV(v) == [i \in 1..Len(v) |-> assign_scalar(v[i])]

\* remove_unreferenced: the vertex ids some facet refers to, ascending
Referenced(g) == {g[k][c] : k \in 1..Len(g), c \in 1..3}

\* new id of a referenced vertex
NewId(g, v) == Cardinality({x \in Referenced(g) : x < v})

RemoveUnreferencedV(vs, g) ==
  [k \in 1..Cardinality(Referenced(g)) |->
     vs[(CHOOSE v \in Referenced(g) : NewId(g, v) = k - 1) + 1]]

RemoveUnreferencedF(g) ==
  [k \in 1..Len(g) |-> <<NewId(g, g[k][1]), NewId(g, g[k][2]), NewId(g, g[k][3])>>]

\* line 273-285: the block declares its own J, resolve_duplicated_faces fills
\* that one, and the parameter J is never assigned
ReturnedJ(callerJ, localJ) == callerJ

(***************************************************************************)
(* The call, step by step                                                  *)
(***************************************************************************)
Scenarios == {"general", "solids", "coincident"}

\* the meshes a caller passes in each scenario
Inputs(sc) ==
  CASE sc = "solids" ->
         {[FA |-> Strip(n), FB |-> Strip(m)] : n \in 1..MaxIn, m \in 0..MaxIn}
    [] sc = "coincident" ->
         {[FA |-> Strip(n), FB |-> Strip(n)] : n \in 1..MaxIn}
    [] OTHER ->
         {[FA |-> Strip(1), FB |-> Strip(m)] : m \in 0..1}

\* the caller's VC, FC, J before the call: fresh matrices, or an earlier result
PriorOutputs ==
  {[VC |-> <<>>, FC |-> <<>>, J |-> <<>>],
   [VC |-> <<0, 0, 2>>, FC |-> <<<<0, 1, 2>>>>, J |-> <<0>>]}

Init ==
  /\ build \in {"debug", "release"}
  /\ scenario \in Scenarios
  /\ \E o \in PriorOutputs : VC = o.VC /\ FC = o.FC /\ J = o.J
  /\ pc = "idle"
  /\ type = "none"
  /\ FA = <<>> /\ FB = <<>>
  /\ F = <<>> /\ CJ = <<>> /\ W = <<>> /\ Wr = <<>> /\ selected = <<>>
  /\ kept_faces = <<>> /\ kept_face_indices = <<>>
  /\ uF = <<>> /\ rdf_kept = <<>> /\ G = <<>> /\ JJ = <<>> /\ Vs = <<>>
  /\ calls = <<>>

\* mesh_boolean, line 297-340: the switch on type
Call ==
  /\ pc = "idle"
  /\ \E t \in Types \cup {InvalidType}, in \in Inputs(scenario) :
       /\ type' = t
       /\ FA' = in.FA
       /\ FB' = in.FB
       /\ pc' = IF IsSupported(t) THEN "resolve" ELSE "thrown"
  /\ UNCHANGED <<build, scenario, F, CJ, W, Wr, selected, kept_faces,
                 kept_face_indices, uF, rdf_kept, G, JJ, Vs, VC, FC, J, calls>>

\* line 210: resolve_intersections(VA, FA, VB, FB, resolve_fun, V, F, CJ)
ResolveIntersections ==
  /\ pc = "resolve"
  /\ \E r \in ResolverResults(scenario, FA, FB) :
       /\ F' = r.F
       /\ CJ' = r.CJ
  /\ calls' = Append(calls, "resolve_func")
  /\ pc' = "propagate"
  /\ UNCHANGED <<build, scenario, type, FA, FB, W, Wr, selected, kept_faces,
                 kept_face_indices, uF, rdf_kept, G, JJ, Vs, VC, FC, J>>

\* line 213-227: labels, propagate_winding_numbers, padding
PropagateWindingNumbers ==
  /\ pc = "propagate"
  /\ calls' = Append(calls, "propagate_winding_numbers")
  /\ IF build = "debug" /\ PadAssertFails(Labels(CJ, FA), FB)
     THEN /\ pc' = "aborted"
          /\ W' = W
     ELSE /\ \E w \in PropagateResults(scenario, Labels(CJ, FA)) : W' = PadW(w)
          /\ pc' = "classify"
  /\ UNCHANGED <<build, scenario, type, FA, FB, F, CJ, Wr, selected, kept_faces,
                 kept_face_indices, uF, rdf_kept, G, JJ, Vs, VC, FC, J>>

\* line 229-268: resulting winding numbers, boundary extraction
Classify ==
  /\ pc = "classify"
  /\ Wr' = ResultWinding(type, W)
  /\ selected' = Selected(type, Wr')
  /\ kept_faces' = KeptFaces(F, selected')
  /\ kept_face_indices' = KeptFaceIndices(CJ, selected')
  /\ pc' = "dedup"
  /\ UNCHANGED <<build, scenario, type, FA, FB, F, CJ, W, uF, rdf_kept, G, JJ,
                 Vs, VC, FC, J, calls>>

\* line 275 (and line 91-165): resolve_duplicated_faces(kept_faces, kept_face_indices, G, J)
ResolveDuplicatedFaces ==
  /\ pc = "dedup"
  /\ calls' = Append(calls, "resolve_duplicated_faces")
  /\ \E us \in UniqueSimplices(kept_faces) :
       /\ uF' = us.uF
       /\ IF build = "debug" /\ RdfAssertFails(kept_faces, us)
          THEN /\ pc' = "aborted"
               /\ UNCHANGED <<rdf_kept, G, JJ>>
          ELSE /\ rdf_kept' = RdfKept(kept_faces, us)
               /\ G' = RdfF2(kept_faces, rdf_kept')
               /\ JJ' = RdfJ2(kept_face_indices, rdf_kept')
               /\ pc' = "convert"
  /\ UNCHANGED <<build, scenario, type, FA, FB, F, CJ, W, Wr, selected, kept_faces,
                 kept_face_indices, Vs, VC, FC, J>>

\* a mutation: the coordinates are converted before resolve_duplicated_faces runs
AssignScalar_before_dedup ==
  /\ pc = "dedup"
  /\ Vs = <<>>
  /\ Vs' = ConvertedV(MergedV(FA, FB))
  /\ calls' = Append(calls, "assign_scalar")
  /\ UNCHANGED <<build, scenario, type, FA, FB, F, CJ, W, Wr, selected, kept_faces,
                 kept_face_indices, uF, rdf_kept, G, JJ, VC, FC, J, pc>>

\* line 277-282: every exact coordinate is converted to the output scalar
AssignScalar ==
  /\ pc = "convert"
  /\ Vs' = ConvertedV(MergedV(FA, FB))
  /\ calls' = Append(calls, "assign_scalar")
  /\ pc' = "compact"
  /\ UNCHANGED <<build, scenario, type, FA, FB, F, CJ, W, Wr, selected, kept_faces,
                 kept_face_indices, uF, rdf_kept, G, JJ, VC, FC, J>>

\* line 283-285: remove_unreferenced(Vs, G, VC, FC, newIM), and the return
RemoveUnreferenced ==
  /\ pc = "compact"
  /\ VC' = RemoveUnreferencedV(Vs, G)
  /\ FC' = RemoveUnreferencedF(G)
  /\ J' = ReturnedJ(J, JJ)
  /\ calls' = Append(calls, "remove_unreferenced")
  /\ pc' = "done"
  /\ UNCHANGED <<build, scenario, type, FA, FB, F, CJ, W, Wr, selected, kept_faces,
                 kept_face_indices, uF, rdf_kept, G, JJ, Vs>>

Next ==
  \/ Call
  \/ ResolveIntersections
  \/ PropagateWindingNumbers
  \/ Classify
  \/ ResolveDuplicatedFaces
  \/ AssignScalar
  \/ RemoveUnreferenced

Spec == Init /\ [][Next]_vars

(***************************************************************************)
(* resolve_duplicated_faces on its own: any facet list F1 with any         *)
(* provenance J1                                                           *)
(***************************************************************************)
\* every vertex order of the triples {0,1,2} and {0,1,3}
FacetPool ==
  {<<a, b, c>> : a, b, c \in 0..3} \cap
  {f \in [1..3 -> 0..3] : {f[1], f[2], f[3]} \in {{0, 1, 2}, {0, 1, 3}}}

\* provenance lists of length n: ascending and descending birth facets
ProvenancePool(n) == {IdentityJ(n), [i \in 1..n |-> n - i]}

InitDedup ==
  /\ build \in {"debug", "release"}
  /\ scenario = "general"
  /\ kept_faces \in SeqsUpTo(FacetPool, MaxFaces)
  /\ kept_face_indices \in ProvenancePool(Len(kept_faces))
  /\ pc = "dedup"
  /\ type = "none"
  /\ FA = <<>> /\ FB = <<>>
  /\ F = <<>> /\ CJ = <<>> /\ W = <<>> /\ Wr = <<>> /\ selected = <<>>
  /\ uF = <<>> /\ rdf_kept = <<>> /\ G = <<>> /\ JJ = <<>> /\ Vs = <<>>
  /\ VC = <<>> /\ FC = <<>> /\ J = <<>>
  /\ calls = <<>>

NextDedup == ResolveDuplicatedFaces

SpecDedup == InitDedup /\ [][NextDedup]_vars

(***************************************************************************)
(* Vocabulary of the properties                                            *)
(***************************************************************************)
Called(c) == \E k \in DOMAIN calls : calls[k] = c

\* resolve_duplicated_faces has returned normally
RdfReturned == pc \in {"convert", "compact", "done"}

SameOrientation(f, g) ==
  f = g \/ f = <<g[2], g[3], g[1]>> \/ f = <<g[3], g[1], g[2]>>

NoDuplicateTriples(fs) ==
  \A i, j \in DOMAIN fs : i # j => SortedTriple(fs[i]) # SortedTriple(fs[j])

\* rows of F1 = kept_faces with the unordered triple key
Occurrences(key) == {i \in DOMAIN kept_faces : SortedTriple(kept_faces[i]) = key}

\* the group's representative row, as unique_simplices returned it
Representative(key) == uF[CHOOSE u \in DOMAIN uF : SortedTriple(uF[u]) = key]

ConsistentRows(key) ==
  {i \in Occurrences(key) : SameOrientation(kept_faces[i], Representative(key))}

ReversedRows(key) == Occurrences(key) \ ConsistentRows(key)

SignedCount(key) == Cardinality(ConsistentRows(key)) - Cardinality(ReversedRows(key))

\* rows of F1 of this group that resolve_duplicated_faces kept
KeptRows(key) == {rdf_kept[k] : k \in DOMAIN rdf_kept} \cap Occurrences(key)

\* rows of F2 = G with the unordered triple key
Survivors(key) == {k \in DOMAIN G : SortedTriple(G[k]) = key}

MinOf(S) == CHOOSE m \in S : \A x \in S : m <= x

ShiftedFB == [i \in 1..Len(FB) |-> <<FB[i][1] + NumVerts(FA), FB[i][2] + NumVerts(FA),
                                     FB[i][3] + NumVerts(FA)>>]

RowSet(fs) == {fs[k] : k \in DOMAIN fs}

(***************************************************************************)
(* C1.  After a call that returns normally the caller's J has one entry    *)
(* per facet of FC, and J[k] is the birth facet, in [FA;FB], of FC[k]:     *)
(* some resolved facet with the triple of the k-th kept facet is born of   *)
(* J[k].                                                                   *)
(***************************************************************************)
C1_JIsProvenanceOfFC ==
  pc = "done" =>
    /\ Len(J) = Len(FC)
    /\ \A k \in DOMAIN FC :
         /\ J[k] \in 0..(Len(FA) + Len(FB) - 1)
         /\ \E i \in DOMAIN F : /\ CJ[i] = J[k]
                                /\ SortedTriple(F[i]) = SortedTriple(G[k])

(***************************************************************************)
(* C2.  A type outside the five recognized values makes the call throw     *)
(* before anything is computed: no collaborator is invoked, and VC, FC, J  *)
(* and every intermediate buffer keep their values.                        *)
(***************************************************************************)
C2_InvalidTypeThrowsFirst ==
  [][type' = InvalidType =>
       /\ pc' = "thrown"
       /\ calls' = <<>>
       /\ UNCHANGED <<VC, FC, J>>
       /\ UNCHANGED <<F, CJ, W, Wr, selected, kept_faces, kept_face_indices,
                      uF, rdf_kept, G, JJ, Vs>>]_vars

C2_Witness ==
  pc = "thrown" /\ type = InvalidType /\ calls = <<>> /\ J = <<0>> /\ FC # <<>>

(***************************************************************************)
(* C3.  After a call that returns normally no two facets of FC share an    *)
(* unordered vertex triple (nor do two facets of G, from which FC is       *)
(* renumbered).                                                            *)
(***************************************************************************)
C3_NoDuplicateFacets ==
  /\ RdfReturned => NoDuplicateTriples(G)
  /\ pc = "done" => NoDuplicateTriples(FC) /\ Len(FC) = Len(G)

\* the kept list held one triple three times, and one facet of it is returned
C3_Witness ==
  /\ pc = "done"
  /\ \E key \in Keys(kept_faces) : Cardinality(Occurrences(key)) = 3
  /\ Len(FC) = 1

(***************************************************************************)
(* C4.  When a group of more than one occurrence has a signed count        *)
(* outside {-1,0,+1}, resolve_duplicated_faces does not return normally:   *)
(* the call ends in an error.                                              *)
(***************************************************************************)
C4_BadGroupIsReported ==
  (/\ Called("resolve_duplicated_faces")
   /\ \E key \in Keys(kept_faces) :
        /\ Cardinality(Occurrences(key)) > 1
        /\ SignedCount(key) \notin {-1, 0, 1})
  => pc = "aborted"

(***************************************************************************)
(* C5.  (as amended)  A triple that occurs exactly twice never survives    *)
(* resolve_duplicated_faces.  If one occurrence is the reverse of the      *)
(* other, both are dropped and the group raises no error.  If both have    *)
(* the same cyclic orientation, the signed count is 2: a debug build       *)
(* aborts on the assert, a release build returns with both dropped.        *)
(***************************************************************************)
PairGroups == {key \in Keys(kept_faces) : Cardinality(Occurrences(key)) = 2}

PairSameOrientation(key) ==
  \A i, j \in Occurrences(key) : SameOrientation(kept_faces[i], kept_faces[j])

OverlappingSolids == scenario = "solids" /\ type = "MINUS"

C6_MinusKeepsAOutsideBAndBInsideA ==
  OverlappingSolids /\ RdfReturned =>
    /\ Len(JJ) = Len(G)
    /\ \A k \in DOMAIN G :
         \/ /\ JJ[k] \in 0..(Len(FA) - 1)
            /\ G[k] = F[JJ[k] + 1]
            /\ W[JJ[k] + 1] = <<0, 1, 0, 0>>
         \/ /\ JJ[k] \in Len(FA)..(Len(FA) + Len(FB) - 1)
            /\ G[k] = Reverse(F[JJ[k] + 1])
            /\ W[JJ[k] + 1] = <<1, 1, 0, 1>>
    /\ \A i \in DOMAIN F :
         W[i] \in {<<0, 1, 0, 0>>, <<1, 1, 0, 1>>} => \E k \in DOMAIN G : JJ[k] = CJ[i]

\* the result holds a facet of A and a reversed facet of B
C6_Witness ==
  /\ OverlappingSolids /\ pc = "done"
  /\ \E k \in DOMAIN JJ : JJ[k] < Len(FA)
  /\ \E k \in DOMAIN JJ : JJ[k] >= Len(FA) /\ G[k] = Reverse(F[JJ[k] + 1])

\* C6 as stated: every surviving facet has its provenance in [0, |FA|)
C6_Original ==
  OverlappingSolids /\ RdfReturned =>
    \A k \in DOMAIN G : JJ[k] \in 0..(Len(FA) - 1)

(***************************************************************************)
(* C7.  Disjoint solids (the resolver returns [FA;FB] unchanged, A facets  *)
(* have winding (0,1,0,0), B facets (0,0,0,1)): the call does not fail;    *)
(* UNION and XOR keep exactly the facets of FA and FB, INTERSECT keeps     *)
(* none, MINUS keeps exactly the facets of FA; all in original vertex      *)
(* order.                                                                  *)
(***************************************************************************)
Disjoint ==
  /\ scenario = "solids"
  /\ F = FA \o ShiftedFB
  /\ Len(W) = Len(F)
  /\ \A i \in DOMAIN W :
       W[i] = IF i <= Len(FA) THEN <<0, 1, 0, 0>> ELSE <<0, 0, 0, 1>>

KeepsExactly(fs) == Len(G) = Len(fs) /\ RowSet(G) = RowSet(fs)

C7_DisjointSolids ==
  Disjoint /\ pc \notin {"propagate", "classify", "dedup"} =>
    /\ pc # "aborted"
    /\ type \in {"UNION", "XOR"} => KeepsExactly(FA \o ShiftedFB)
    /\ type = "INTERSECT" => G = <<>>
    /\ type = "MINUS" => KeepsExactly(FA)
    /\ pc = "done" => Len(FC) = Len(G)

C7_Witness ==
  /\ Disjoint /\ pc = "done" /\ type = "XOR"
  /\ Len(FA) = 2 /\ Len(FB) = 2 /\ Len(FC) = 4

(***************************************************************************)
(* C8.  Coincident solids A = B (every facet is resolved twice, born of A  *)
(* and born of B, with the same vertex triple): the call does not fail;    *)
(* UNION and INTERSECT return |FA| facets, MINUS and XOR return none.      *)
(***************************************************************************)
Coincident ==
  /\ scenario = "coincident"
  /\ type \in {"UNION", "INTERSECT", "MINUS", "XOR"}

ResolveMode == type = "RESOLVE"

C9_ResolveKeepsUnlessDuplicated ==
  ResolveMode =>
    /\ pc \in {"dedup", "convert", "compact", "done", "aborted"} /\ W # <<>> =>
         /\ selected = [i \in 1..Len(F) |-> i]
         /\ kept_faces = F
         /\ kept_face_indices = CJ
    /\ RdfReturned /\ NoDuplicateTriples(F) =>
         /\ Len(G) = Len(F) /\ Len(JJ) = Len(F)
         /\ \A i \in DOMAIN F : \E k \in DOMAIN G : G[k] = F[i] /\ JJ[k] = CJ[i]
    /\ pc = "done" /\ NoDuplicateTriples(F) => Len(FC) = Len(F)
    /\ pc = "done" /\ ~NoDuplicateTriples(F) => Len(FC) < Len(F)

C9_Witness ==
  /\ ResolveMode /\ pc = "done"
  /\ Len(F) = 3 /\ NoDuplicateTriples(F) /\ Len(FC) = 3
  /\ \E i \in DOMAIN W : W[i] = <<1, 1, 0, 1>>

\* C9 as stated: FC has as many facets as the resolved mesh
C9_Original ==
  ResolveMode /\ pc = "done" => Len(FC) = Len(F)

(***************************************************************************)
(* C10.  After resolve_duplicated_faces has returned, for every group of   *)
(* rows of F1 with one unordered triple, consistency being measured        *)
(* against the group's representative: one occurrence - it is kept; more   *)
(* than one and signed count +1 - exactly the first consistent row is      *)
(* kept; signed count -1 - exactly the first reversed row; signed count 0  *)
(* - none.  A kept row is kept once, with its vertex order and its row of  *)
(* J1.                                                                     *)
(***************************************************************************)
C10_GroupDecision ==
  pc = "convert" =>
    /\ \A key \in Keys(kept_faces) :
         /\ Cardinality(Occurrences(key)) = 1 => KeptRows(key) = Occurrences(key)
         /\ Cardinality(Occurrences(key)) > 1 /\ SignedCount(key) = 1 =>
              KeptRows(key) = {MinOf(ConsistentRows(key))}
         /\ Cardinality(Occurrences(key)) > 1 /\ SignedCount(key) = -1 =>
              KeptRows(key) = {MinOf(ReversedRows(key))}
         /\ Cardinality(Occurrences(key)) > 1 /\ SignedCount(key) = 0 =>
              KeptRows(key) = {}
    /\ \A k1, k2 \in DOMAIN rdf_kept : k1 # k2 => rdf_kept[k1] # rdf_kept[k2]
    /\ Len(G) = Len(rdf_kept) /\ Len(JJ) = Len(rdf_kept)
    /\ \A k \in DOMAIN rdf_kept :
         /\ rdf_kept[k] \in DOMAIN kept_faces
         /\ G[k] = kept_faces[rdf_kept[k]]
         /\ JJ[k] = kept_face_indices[rdf_kept[k]]

\* three occurrences, two of them reversed: the kept row is not the group's first
C10_Witness ==
  /\ pc = "convert"
  /\ \E key \in Keys(kept_faces) :
       /\ Cardinality(Occurrences(key)) = 3
       /\ SignedCount(key) = -1
       /\ KeptRows(key) # {}
       /\ KeptRows(key) # {MinOf(Occurrences(key))}

(***************************************************************************)
(* C11.  (as amended)  resolve_duplicated_faces lists the survivors group  *)
(* by group, in the order in which unique_simplices numbers the groups     *)
(* (the rows of uF, ascending in the sorted vertex triple), at most one    *)
(* row per group, and row k of J2 goes with row k of F2.  The order the    *)
(* survivors had in F1 plays no part: it is kept only where it agrees with *)
(* the order of the groups.                                                *)
(***************************************************************************)
GroupOf(f) == CHOOSE u \in DOMAIN uF : SortedTriple(uF[u]) = SortedTriple(f)

C11_SurvivorsInGroupOrder ==
  pc = "convert" =>
    /\ Len(G) = Len(rdf_kept) /\ Len(JJ) = Len(rdf_kept)
    /\ \A k \in DOMAIN rdf_kept :
         G[k] = kept_faces[rdf_kept[k]] /\ JJ[k] = kept_face_indices[rdf_kept[k]]
    /\ \A k1, k2 \in DOMAIN rdf_kept :
         k1 < k2 => /\ GroupOf(G[k1]) < GroupOf(G[k2])
                    /\ LexLess(SortedTriple(G[k1]), SortedTriple(G[k2]))

\* two survivors leave in the opposite of the order they came in
C11_Witness ==
  /\ pc = "convert"
  /\ Len(rdf_kept) = 2 /\ rdf_kept[1] > rdf_kept[2]
  /\ G = <<kept_faces[rdf_kept[1]], kept_faces[rdf_kept[2]]>>

\* C11 as stated: survivors keep the relative order they had in F1
C11_Original ==
  pc = "convert" =>
    \A k1, k2 \in DOMAIN rdf_kept : k1 < k2 => rdf_kept[k1] < rdf_kept[k2]

(***************************************************************************)
(* C12.  For UNION, INTERSECT, MINUS and XOR the operation's reduction is  *)
(* applied to the outside pair (W[i,0], W[i,2]) and to the inside pair     *)
(* (W[i,1], W[i,3]) of every resolved facet i.  The facet is selected in   *)
(* its original vertex order iff the inside verdict is 1 and the outside   *)
(* verdict 0, selected reversed iff the outside verdict is 1 and the       *)
(* inside verdict 0, and not selected iff the verdicts are equal.  A       *)
(* selected facet is selected once and carries CJ[i].                      *)
(***************************************************************************)
Reduction(w) ==
  CASE type = "UNION" -> BinaryUnion(w)
    [] type = "INTERSECT" -> BinaryIntersect(w)
    [] type = "MINUS" -> BinaryMinus(w)
    [] type = "XOR" -> BinaryXor(w)

OutsideVerdict(i) == Reduction(<<W[i][1], W[i][3]>>)
InsideVerdict(i) == Reduction(<<W[i][2], W[i][4]>>)

\* positions of the kept list that hold resolved facet i
SelectedAt(i) == {k \in DOMAIN selected : Abs(selected[k]) = i}

Classified == pc \in {"dedup", "convert", "compact", "done"} \/ (pc = "aborted" /\ W # <<>>)

C12_ClassificationRule ==
  type \in {"UNION", "INTERSECT", "MINUS", "XOR"} /\ Classified =>
    /\ Len(W) = Len(F)
    /\ Len(kept_faces) = Len(selected) /\ Len(kept_face_indices) = Len(selected)
    /\ \A i \in DOMAIN F :
         /\ Cardinality(SelectedAt(i)) <= 1
         /\ (InsideVerdict(i) = 1 /\ OutsideVerdict(i) = 0) <=>
              \E k \in SelectedAt(i) : selected[k] = i /\ kept_faces[k] = F[i]
         /\ (OutsideVerdict(i) = 1 /\ InsideVerdict(i) = 0) <=>
              \E k \in SelectedAt(i) : selected[k] = -i /\ kept_faces[k] = Reverse(F[i])
         /\ (OutsideVerdict(i) = InsideVerdict(i)) <=> SelectedAt(i) = {}
         /\ \A k \in SelectedAt(i) : kept_face_indices[k] = CJ[i]

\* one call classifies a facet each way: kept, kept reversed, not selected; the
\* kept ones carry birth facets that differ from their own positions
C12_Witness ==
  /\ type = "MINUS" /\ pc = "dedup" /\ Len(F) = 3
  /\ \E i, j, l \in DOMAIN F :
       /\ selected = <<i, -j>> /\ SelectedAt(l) = {}
       /\ kept_faces = <<F[i], Reverse(F[j])>>
       /\ kept_face_indices = <<CJ[i], CJ[j]>>
       /\ CJ[i] # i - 1

(***************************************************************************)
(* C13.  In every call the exact coordinates are converted to the output   *)
(* scalar after resolve_duplicated_faces has returned and immediately      *)
(* before remove_unreferenced: assign_scalar is invoked right after        *)
(* resolve_duplicated_faces and right before remove_unreferenced, in the   *)
(* one step from "convert" to "compact", and while the resolver, the       *)
(* winding propagation, the classification and the duplicate resolution    *)
(* run no converted coordinate exists.                                     *)
(***************************************************************************)
DecidingSteps == {"resolve", "propagate", "classify", "dedup"}

C13_ConversionOrder ==
  /\ \A k \in DOMAIN calls :
       /\ calls[k] = "assign_scalar" =>
            /\ k > 1 /\ calls[k - 1] = "resolve_duplicated_faces"
            /\ \A k2 \in DOMAIN calls : k2 > k => calls[k2] = "remove_unreferenced"
       /\ calls[k] = "remove_unreferenced" => k > 1 /\ calls[k - 1] = "assign_scalar"
       /\ calls[k] \in {"resolve_func", "propagate_winding_numbers",
                        "resolve_duplicated_faces"} =>
            \A k2 \in 1..k : calls[k2] # "assign_scalar"
  /\ pc \in DecidingSteps => Vs = <<>> /\ ~Called("assign_scalar")
  /\ pc = "aborted" => Vs = <<>>
  /\ Vs # <<>> <=> Called("assign_scalar")
  /\ pc = "done" <=> Called("remove_unreferenced")

\* a call has returned: duplicates were cancelled on exact coordinates, then the
\* conversion changed a coordinate, then the vertices were compacted
C13_Witness ==
  /\ pc = "done"
  /\ calls = <<"resolve_func", "propagate_winding_numbers", "resolve_duplicated_faces",
               "assign_scalar", "remove_unreferenced">>
  /\ Len(G) < Len(kept_faces)
  /\ Vs # MergedV(FA, FB)
  /\ VC # <<>>

====
